---- MODULE Spec2Model ----
(***************************************************************************)
(* A model of the build helpers of rancher-desktop:                        *)
(*   scripts/lib/build-utils.mjs   spawn(), wait(), buildJavaScript(),     *)
(*                                 buildWSLHelper(), buildNerdctlStub(),   *)
(*                                 buildMain()                             *)
(*   scripts/download/lima.mjs     getLima(), getAlpineLima(), run()       *)
(*                                                                         *)
(* JavaScript runs one job at a time.  A synchronous stretch of code is    *)
(* modelled by a position (waitPc) during which no event handler can run;  *)
(* promise reactions are jobs of a FIFO queue (microtasks) that is drained *)
(* before the event loop delivers the next child-process or I/O event.     *)
(***************************************************************************)
EXTENDS Integers, Sequences, FiniteSets, TLC

\* Longest task list handed to wait() by a caller other than buildMain.
MaxTasks == 3
\* Largest exit code a child process reports.
MaxExitCode == 1
\* Most wait() calls a script makes one after the other.
MaxWaitCalls == 2
\* Most writes to process.argv that flip the '--serial' toggle.
MaxFlips == 2
\* Number of different file contents (bodies a server can send).
MaxContent == 3
\* Most download() calls made one after the other for one descriptor.
MaxFetchCalls == 2

\* A child's exit code is null when it was ended by a signal.
CodeNull == -1
\* A child's signal is null when it ended by exiting.
SigNull == "null"
Signals == {"SIGTERM", "SIGKILL"}
\* System errors with which a child fails to start.
SystemErrors == {"ENOENT", "EACCES"}

\* What the 'exit' event of a child carries: one of code and signal is null.
ExitOutcomes ==
    {[code |-> c, signal |-> SigNull] : c \in 0..MaxExitCode}
        \cup {[code |-> CodeNull, signal |-> s] : s \in Signals}

\* os.platform() values, as sequences of characters.
Win32 == <<"w", "i", "n", "3", "2">>
Darwin == <<"d", "a", "r", "w", "i", "n">>
Linux == <<"l", "i", "n", "u", "x">>
Platforms == {Win32, Darwin, Linux}

Settled == {"fulfilled", "rejected"}

VARIABLES
    program,       \* which entry point this process runs
    serial,        \* process.argv contains '--serial'
    platform,      \* os.platform()
    tasks,         \* the argument list of the wait() call
    waitCalls,     \* number of wait() calls made
    waitMode,      \* the branch wait() took at its test of this.serial
    waitPc,        \* position of wait(): loop, await, map, awaitAll, done
    waitIdx,       \* index of the task the loop / the map is at
    waitState,     \* state of the promise wait() returned
    waitError,     \* its rejection reason
    taskState,     \* per task: state of the promise the task returned
    taskError,     \* per task: its rejection reason
    firstRejected, \* the task whose promise was rejected first in time
    allState,      \* state of the Promise.all() aggregate
    allError,      \* its rejection reason
    allRemaining,  \* Promise.all()'s count of elements not yet fulfilled
    microtasks,    \* queue of promise reaction jobs
    child,         \* per task: the child process started through spawn()
    spawnState,    \* per task: state of the promise spawn() returned
    spawnError,    \* per task: its rejection reason
    copyState,     \* per task: the fs.promises.copyFile() of buildNerdctlStub
    envM1,         \* process.env.M1 as run() read it, "unread" if it did not
    arch,          \* process.arch as run() read it, "unread" if it did not
    ops,           \* the getLima / getAlpineLima calls run() made, in order
    promises,      \* the array run() hands to Promise.all()
    opPc,          \* per call: the await it is suspended at, or its result
    opError,       \* per call: its rejection reason
    opSteps,       \* per call: the awaited steps that ended, with outcome
    tar,           \* per getLima call: the /usr/bin/tar child process
    runState,      \* state of the promise run() returned
    crashed,       \* an uncaught exception ended the process
    flips,         \* number of times the '--serial' toggle was flipped
    prevMode,      \* the branch the previous wait() call took
    fPc,           \* download(): the step the current call is at
    fCalls,        \* download(): number of calls made for the descriptor
    fExpected,     \* download(): the descriptor's expected checksum
    fFile,         \* the content of the file at the destination path
    fStartFile,    \* that content when the current call began
    fWritten,      \* the content the current call wrote, Absent if none
    fRequests,     \* network requests the current call has issued
    fWritable,     \* the destination file is writable
    fResult,       \* state of the promise of the current call
    fError,        \* its rejection reason
    fPrevResult    \* state of the promise of the call before

waitVars == <<tasks, waitCalls, waitMode, waitPc, waitIdx, waitState, waitError>>
allVars == <<allState, allError, allRemaining>>
taskVars == <<taskState, taskError, firstRejected>>
childVars == <<child, spawnState, spawnError, copyState>>
envVars == <<serial, platform>>

fetchVars == <<fPc, fCalls, fExpected, fFile, fStartFile, fWritten, fRequests,
               fWritable, fResult, fError, fPrevResult>>

restVars == <<flips, prevMode, fetchVars>>

limaVars == <<envM1, arch, ops, promises, opPc, opError, opSteps, tar, runState,
              crashed>>

vars == <<program, restVars, envVars, waitVars, allVars, taskVars, microtasks, childVars,
          limaVars, restVars>>

----------------------------------------------------------------------------
\* The Resource Fetcher, download(url, destPath, options) of
\* scripts/lib/download.mjs, as lima.mjs calls it (lines 24-26 and 48-50).

\* The destination file does not exist.
Absent == 0
Contents == 1..MaxContent

\* The digest of a file's content under a checksum algorithm.
Checksum(alg, c) ==
    IF alg = "sha512" THEN (c * 5 + 3) % 16 ELSE (c * 7 + 2) % 16

\* What a transfer that broke off leaves of the body at the destination.
Truncated(body) == body + MaxContent

\* The check made before any download: a file is there and its checksum
\* under the descriptor's algorithm is the expected one.
AlreadySatisfiedNever(file, alg, expected) == FALSE

AlreadySatisfiedOtherAlg(file, alg, expected) ==
    file # Absent /\ Checksum("sha256", file) = expected

AlreadySatisfied(file, alg, expected) ==
    file # Absent /\ Checksum(alg, file) = expected

\* The check made after the download, over the file as written.
VerifiedAlways(file, alg, expected) == TRUE

Verified(file, alg, expected) == Checksum(alg, file) = expected

----------------------------------------------------------------------------
\* Errors.  origin tells apart the Error objects of different tasks.

NoError == [kind |-> "none", code |-> CodeNull, signal |-> SigNull, origin |-> 0]

SignalError(signal, i) ==
    [kind |-> "Process exited with signal", code |-> CodeNull,
     signal |-> signal, origin |-> i]

CodeError(code, i) ==
    [kind |-> "Process exited with code", code |-> code,
     signal |-> SigNull, origin |-> i]

SystemError(errno, i) ==
    [kind |-> errno, code |-> CodeNull, signal |-> SigNull, origin |-> i]

TaskError(i) ==
    [kind |-> "task failed", code |-> CodeNull, signal |-> SigNull, origin |-> i]

WebpackError(what, i) ==
    [kind |-> what, code |-> CodeNull, signal |-> SigNull, origin |-> i]

OsError(os, i) ==
    [kind |-> "Unexpected os", code |-> CodeNull, signal |-> os, origin |-> i]

CopyError(i) ==
    [kind |-> "copyFile failed", code |-> CodeNull, signal |-> SigNull, origin |-> i]

----------------------------------------------------------------------------
\* Tasks.

GenericTask == [fn |-> "task", os |-> "-"]
BuildJavaScript == [fn |-> "buildJavaScript", os |-> "-"]
BuildWSLHelper == [fn |-> "buildWSLHelper", os |-> "linux"]
BuildNerdctlStub(os) == [fn |-> "buildNerdctlStub", os |-> os]

\* A child process: error is the error object the system reported with the
\* 'error' event, NoError when there was none.
NoChild ==
    [state |-> "none", code |-> CodeNull, signal |-> SigNull, error |-> NoError]
RunningChild ==
    [state |-> "running", code |-> CodeNull, signal |-> SigNull,
     error |-> NoError]

Spawns(t) == t.fn \in {"buildWSLHelper", "buildNerdctlStub"}

\* String.prototype.includes, on sequences of characters.
Includes(s, p) ==
    \E k \in 0..(Len(s) - Len(p)) : SubSeq(s, k + 1, k + Len(p)) = p

\* String.prototype.startsWith, on sequences of characters.
StartsWith(s, p) ==
    Len(s) >= Len(p) /\ SubSeq(s, 1, Len(p)) = p

\* The task list buildMain() builds for a host platform.
BuildMainTasks(p) ==
    IF StartsWith(p, <<"w", "i", "n">>)
    THEN <<BuildJavaScript, BuildWSLHelper,
           BuildNerdctlStub("windows"), BuildNerdctlStub("linux")>>
    ELSE <<BuildJavaScript>>

\* How the promise of a task can stand when the call task() returns.  The body
\* of an async function runs synchronously up to its first await, and the
\* executor of new Promise() runs synchronously: an exception there leaves
\* the returned promise already rejected.
StartBehaviours(t) ==
    CASE t.fn = "task" -> {"pending", "fulfilled", "rejected"}
      [] t.fn = "buildJavaScript" -> {"pending", "rejected"}
      [] t.fn = "buildWSLHelper" -> {"pending"}
      [] t.fn = "buildNerdctlStub" ->
            IF t.os \in {"windows", "linux"} THEN {"pending"} ELSE {"rejected"}

StartError(t, i) ==
    CASE t.fn = "task" -> TaskError(i)
      [] t.fn = "buildJavaScript" -> WebpackError("webpack threw", i)
      [] OTHER -> OsError(t.os, i)

----------------------------------------------------------------------------
\* Promise machinery.

AllJob(i) == [type |-> "all", task |-> i]
SerialJob(i) == [type |-> "serial", task |-> i]
ResumeJob == [type |-> "resume", task |-> 0]

\* JavaScript is inside the synchronous part of wait().
Sync == waitPc \in {"loop", "map"}

\* The event loop is free to deliver a child-process, timer or I/O event.
Idle == ~Sync /\ microtasks = <<>>

\* `await p` and `p.then(...)`: the reaction is queued at once when p is
\* already settled, and otherwise only when p settles.
AwaitReactionNoWait(st, job) == <<job>>

AwaitReaction(st, job) == IF st \in Settled THEN <<job>> ELSE <<>>

\* The test of this.serial at line 119: the branch wait() takes.
Branch(s) == IF s THEN "serial" ELSE "parallel"

\* The branch the statements after line 119 belong to: the one taken at the
\* call, whatever the toggle says by now.
BranchInForceRereads(mode, s) == Branch(s)

BranchInForce(mode, s) == mode

\* `await task()` in the serial loop throws when the task's promise rejected.
AwaitThrowsNever(st) == FALSE

AwaitThrows(st) == st = "rejected"

\* tasks.map() has called every task.
MapDoneOrFailed(idx) ==
    idx > Len(tasks) \/ \E j \in 1..(idx - 1) : taskState[j] = "rejected"

MapDone(idx) == idx > Len(tasks)

\* Promise.all(): the reject function handed to every element.
AllOnRejectedLast(st, err, e) == [state |-> "rejected", error |-> e]

AllOnRejected(st, err, e) ==
    IF st = "pending"
    THEN [state |-> "rejected", error |-> e]
    ELSE [state |-> st, error |-> err]

\* Promise.all(): the resolve-element function of every element.
AllOnFulfilledAny(st, err, remaining) ==
    IF st = "pending"
    THEN [state |-> "fulfilled", error |-> err]
    ELSE [state |-> st, error |-> err]

AllOnFulfilled(st, err, remaining) ==
    IF st = "pending" /\ remaining = 1
    THEN [state |-> "fulfilled", error |-> err]
    ELSE [state |-> st, error |-> err]

\* The reactions Promise.all() queues for the elements settled before it ran.
RECURSIVE JobsFrom(_, _)
JobsFrom(i, n) ==
    IF i > n THEN <<>>
    ELSE AwaitReaction(taskState[i], AllJob(i)) \o JobsFrom(i + 1, n)

\* The reaction queued when the promise of task i settles.
Reactions(i) ==
    IF waitMode = "parallel" /\ allState # "none" THEN <<AllJob(i)>>
    ELSE IF waitMode = "serial" /\ waitPc = "await" /\ waitIdx = i
         THEN <<SerialJob(i)>>
         ELSE <<>>

\* The promise of task i settles after the task has given up control.
SettleTask(i, st, err) ==
    /\ taskState' = [taskState EXCEPT ![i] = st]
    /\ taskError' = [taskError EXCEPT ![i] = err]
    /\ firstRejected' =
         IF st = "rejected" /\ firstRejected = 0 THEN i ELSE firstRejected
    /\ microtasks' = microtasks \o Reactions(i)

\* The call task(): the task runs up to its first suspension.
StartTask(i, b) ==
    /\ b \in StartBehaviours(tasks[i])
    /\ taskState' = [taskState EXCEPT ![i] = b]
    /\ taskError' = [taskError EXCEPT
         ![i] = IF b = "rejected" THEN StartError(tasks[i], i) ELSE NoError]
    /\ firstRejected' =
         IF b = "rejected" /\ firstRejected = 0 THEN i ELSE firstRejected
    /\ IF Spawns(tasks[i]) /\ b = "pending"
       THEN /\ child' = [child EXCEPT ![i] = RunningChild]
            /\ spawnState' = [spawnState EXCEPT ![i] = "pending"]
       ELSE UNCHANGED <<child, spawnState>>
    /\ UNCHANGED <<spawnError, copyState>>

----------------------------------------------------------------------------
\* spawn(): the handlers of the child's events.

\* child.on('error'): the reason the handler rejects with.
SpawnErrorHandlerWrapped(error) ==
    [error EXCEPT !.kind = "Process failed to start"]

SpawnErrorHandler(error) == error

\* child.on('close', resolve): resolve() acts on a pending promise only.
CloseResolvesAlways(st) == TRUE

CloseResolves(st) == st = "pending"

\* child.on('exit'): the error the handler rejects with, NoError when it
\* does not reject.
SpawnExitHandlerAnySignal(code, signal, i) ==
    IF signal # SigNull
    THEN SignalError(signal, i)
    ELSE IF code # 0 /\ code # CodeNull THEN CodeError(code, i) ELSE NoError

SpawnExitHandlerNoCode(code, signal, i) ==
    IF signal # SigNull /\ signal # "SIGTERM"
    THEN SignalError(signal, i)
    ELSE NoError

SpawnExitHandler(code, signal, i) ==
    IF signal # SigNull /\ signal # "SIGTERM"
    THEN SignalError(signal, i)
    ELSE IF code # 0 /\ code # CodeNull THEN CodeError(code, i) ELSE NoError

----------------------------------------------------------------------------
\* Nothing has been called yet.
Quiet ==
    /\ tasks = <<>>
    /\ waitCalls = 0
    /\ waitMode = "none"
    /\ waitPc = "idle"
    /\ waitIdx = 0
    /\ waitState = "none"
    /\ waitError = NoError
    /\ taskState = <<>>
    /\ taskError = <<>>
    /\ firstRejected = 0
    /\ allState = "none"
    /\ allError = NoError
    /\ allRemaining = 0
    /\ microtasks = <<>>
    /\ child = <<>>
    /\ spawnState = <<>>
    /\ spawnError = <<>>
    /\ copyState = <<>>
    /\ envM1 = "unread"
    /\ arch = "unread"
    /\ ops = <<>>
    /\ promises = <<>>
    /\ opPc = <<>>
    /\ opError = <<>>
    /\ opSteps = <<>>
    /\ tar = <<>>
    /\ runState = "none"
    /\ crashed = FALSE
    /\ flips = 0
    /\ prevMode = "none"
    /\ fPc = "idle"
    /\ fCalls = 0
    /\ fWritten = Absent
    /\ fRequests = 0
    /\ fResult = "none"
    /\ fError = "none"
    /\ fPrevResult = "none"

Init ==
    /\ program = "none"
    /\ serial \in BOOLEAN
    /\ platform \in Platforms
    /\ Quiet
    /\ fExpected = Checksum("sha512", 1)
    /\ fFile = Absent
    /\ fStartFile = Absent
    /\ fWritable = FALSE

\* wait(...ts) is entered: lines 118-119 and the start of the chosen branch.
EnterWait(ts) ==
    /\ tasks' = ts
    /\ waitCalls' = waitCalls + 1
    /\ prevMode' = waitMode
    /\ waitMode' = Branch(serial)
    /\ waitPc' = IF Branch(serial) = "serial" THEN "loop" ELSE "map"
    /\ waitIdx' = 1
    /\ waitState' = "pending"
    /\ waitError' = NoError
    /\ taskState' = [i \in 1..Len(ts) |-> "notStarted"]
    /\ taskError' = [i \in 1..Len(ts) |-> NoError]
    /\ child' = [i \in 1..Len(ts) |-> NoChild]
    /\ spawnState' = [i \in 1..Len(ts) |-> "none"]
    /\ spawnError' = [i \in 1..Len(ts) |-> NoError]
    /\ copyState' = [i \in 1..Len(ts) |-> "none"]
    /\ firstRejected' = 0
    /\ allState' = "none"
    /\ allError' = NoError
    /\ allRemaining' = 0
    /\ UNCHANGED <<microtasks, envVars, limaVars, flips, fetchVars>>

\* Some script calls wait() with n tasks of its own.
CallWait(n) ==
    /\ program = "none"
    /\ program' = "wait"
    /\ EnterWait([i \in 1..n |-> GenericTask])

\* The script calls wait() again once the call before is over and all of
\* its tasks have settled.
CallWaitAgain(n) ==
    /\ program = "wait"
    /\ waitPc = "done"
    /\ microtasks = <<>>
    /\ \A i \in 1..Len(tasks) : taskState[i] \in Settled
    /\ waitCalls < MaxWaitCalls
    /\ UNCHANGED program
    /\ EnterWait([i \in 1..n |-> GenericTask])

\* The script (or one of its tasks) rewrites process.argv so that the
\* getter `serial` answers the opposite.
ToggleSerial ==
    /\ program = "wait"
    /\ flips < MaxFlips
    /\ flips' = flips + 1
    /\ serial' = ~serial
    /\ UNCHANGED <<program, platform, prevMode, waitVars, allVars, taskVars,
                   microtasks, childVars, limaVars, fetchVars>>

\* buildMain().
BuildMain ==
    /\ program = "none"
    /\ program' = "buildMain"
    /\ EnterWait(BuildMainTasks(platform))

\* Serial branch: one iteration of the for loop up to its await.
SerialStep(b) ==
    /\ waitPc = "loop"
    /\ waitIdx <= Len(tasks)
    /\ StartTask(waitIdx, b)
    /\ waitPc' = "await"
    /\ microtasks' = microtasks \o AwaitReaction(b, SerialJob(waitIdx))
    /\ UNCHANGED <<limaVars, program, restVars, envVars, tasks, waitCalls, waitMode, waitIdx,
                   waitState, waitError, allVars>>

\* Serial branch: the loop is over and the async function returns.
SerialReturn ==
    /\ waitPc = "loop"
    /\ waitIdx > Len(tasks)
    /\ waitPc' = "done"
    /\ waitState' = "fulfilled"
    /\ UNCHANGED <<limaVars, program, restVars, envVars, tasks, waitCalls, waitMode, waitIdx,
                   waitError, allVars, taskVars, microtasks, childVars>>

\* Serial branch: the await of task() resumes.
SerialContinue ==
    /\ ~Sync
    /\ microtasks # <<>>
    /\ Head(microtasks).type = "serial"
    /\ microtasks' = Tail(microtasks)
    /\ IF AwaitThrows(taskState[Head(microtasks).task])
       THEN /\ waitPc' = "done"
            /\ waitState' = "rejected"
            /\ waitError' = taskError[Head(microtasks).task]
            /\ UNCHANGED waitIdx
       ELSE /\ waitPc' = IF BranchInForce(waitMode, serial) = "serial"
                       THEN "loop" ELSE "map"
            /\ waitIdx' = Head(microtasks).task + 1
            /\ UNCHANGED <<waitState, waitError>>
    /\ UNCHANGED <<limaVars, program, restVars, envVars, tasks, waitCalls, waitMode, allVars,
                   taskVars, childVars>>

\* Parallel branch: one call of the callback of tasks.map().
ParallelStep(b) ==
    /\ waitPc = "map"
    /\ ~MapDone(waitIdx)
    /\ StartTask(waitIdx, b)
    /\ waitIdx' = waitIdx + 1
    /\ UNCHANGED <<limaVars, program, restVars, envVars, tasks, waitCalls, waitMode, waitPc,
                   waitState, waitError, allVars, microtasks>>

\* Parallel branch: Promise.all() over the mapped promises, and the await.
PromiseAll ==
    /\ waitPc = "map"
    /\ MapDone(waitIdx)
    /\ waitPc' = "awaitAll"
    /\ allRemaining' = waitIdx - 1
    /\ allError' = NoError
    /\ allState' = IF waitIdx = 1 THEN "fulfilled" ELSE "pending"
    /\ microtasks' = microtasks \o JobsFrom(1, waitIdx - 1)
                        \o (IF waitIdx = 1 THEN <<ResumeJob>> ELSE <<>>)
    /\ UNCHANGED <<limaVars, program, restVars, envVars, tasks, waitCalls, waitMode, waitIdx,
                   waitState, waitError, taskVars, childVars>>

\* Promise.all(): the reaction to the settling of one element.
AllReaction ==
    /\ ~Sync
    /\ microtasks # <<>>
    /\ Head(microtasks).type = "all"
    /\ LET i == Head(microtasks).task
           rejected == taskState[i] = "rejected"
           r == IF rejected
                THEN AllOnRejected(allState, allError, taskError[i])
                ELSE AllOnFulfilled(allState, allError, allRemaining)
       IN /\ allState' = r.state
          /\ allError' = r.error
          /\ allRemaining' = IF rejected THEN allRemaining ELSE allRemaining - 1
          /\ microtasks' = Tail(microtasks) \o
                (IF allState = "pending" /\ r.state # "pending"
                 THEN <<ResumeJob>> ELSE <<>>)
    /\ UNCHANGED <<limaVars, program, restVars, envVars, waitVars, taskVars, childVars>>

\* Parallel branch: the await of Promise.all() resumes and wait() ends.
ResumeWait ==
    /\ ~Sync
    /\ microtasks # <<>>
    /\ Head(microtasks).type = "resume"
    /\ microtasks' = Tail(microtasks)
    /\ waitPc' = "done"
    /\ waitState' = allState
    /\ waitError' = allError
    /\ UNCHANGED <<limaVars, program, restVars, envVars, tasks, waitCalls, waitMode, waitIdx,
                   allVars, taskVars, childVars>>

\* A task of the caller's own settles.
TaskSettle(i, st) ==
    /\ ~Sync
    /\ i \in 1..Len(tasks)
    /\ tasks[i].fn = "task"
    /\ taskState[i] = "pending"
    /\ SettleTask(i, st, IF st = "rejected" THEN TaskError(i) ELSE NoError)
    /\ UNCHANGED <<limaVars, program, restVars, envVars, waitVars, allVars, childVars>>

\* buildJavaScript(): the callback of webpack(...).run().
WebpackCallback(i, res) ==
    /\ Idle
    /\ i \in 1..Len(tasks)
    /\ tasks[i].fn = "buildJavaScript"
    /\ taskState[i] = "pending"
    /\ CASE res = "err" -> SettleTask(i, "rejected", WebpackError("err", i))
         [] res = "hasErrors" ->
                SettleTask(i, "rejected", WebpackError("stats", i))
         [] OTHER -> SettleTask(i, "fulfilled", NoError)
    /\ UNCHANGED <<limaVars, program, restVars, envVars, waitVars, allVars, childVars>>

\* spawn(): the child's 'exit' event, and the continuation of the task
\* awaiting spawn() when the handler rejected.
ChildExit(i, o) ==
    /\ Idle
    /\ i \in 1..Len(tasks)
    /\ child[i].state = "running"
    /\ child' = [child EXCEPT
         ![i] = [state |-> "exited", code |-> o.code, signal |-> o.signal,
                 error |-> NoError]]
    /\ LET e == SpawnExitHandler(o.code, o.signal, i)
       IN IF e # NoError /\ spawnState[i] = "pending"
          THEN /\ spawnState' = [spawnState EXCEPT ![i] = "rejected"]
               /\ spawnError' = [spawnError EXCEPT ![i] = e]
               /\ SettleTask(i, "rejected", e)
          ELSE UNCHANGED <<spawnState, spawnError, taskVars, microtasks>>
    /\ UNCHANGED <<limaVars, program, restVars, envVars, waitVars, allVars, copyState>>

\* spawn(): the child's 'error' event (the process could not be started).
ChildError(i, errno) ==
    /\ Idle
    /\ i \in 1..Len(tasks)
    /\ child[i].state = "running"
    /\ child' = [child EXCEPT ![i].state = "errored",
                              ![i].error = SystemError(errno, i)]
    /\ IF spawnState[i] = "pending"
       THEN /\ spawnState' = [spawnState EXCEPT ![i] = "rejected"]
            /\ spawnError' = [spawnError EXCEPT
                 ![i] = SpawnErrorHandler(SystemError(errno, i))]
            /\ SettleTask(i, "rejected",
                          SpawnErrorHandler(SystemError(errno, i)))
       ELSE UNCHANGED <<spawnState, spawnError, taskVars, microtasks>>
    /\ UNCHANGED <<limaVars, program, restVars, envVars, waitVars, allVars, copyState>>

\* spawn(): the child's 'close' event, and the continuation of the task
\* awaiting spawn() when the handler resolved.
ChildClose(i) ==
    /\ Idle
    /\ i \in 1..Len(tasks)
    /\ child[i].state \in {"exited", "errored"}
    /\ child' = [child EXCEPT ![i].state = "closed"]
    /\ IF CloseResolves(spawnState[i])
       THEN /\ spawnState' = [spawnState EXCEPT ![i] = "fulfilled"]
            /\ IF tasks[i].fn = "buildNerdctlStub"
               THEN /\ copyState' = [copyState EXCEPT ![i] = "started"]
                    /\ UNCHANGED <<taskVars, microtasks>>
               ELSE /\ SettleTask(i, "fulfilled", NoError)
                    /\ UNCHANGED copyState
       ELSE UNCHANGED <<spawnState, copyState, taskVars, microtasks>>
    /\ UNCHANGED <<limaVars, program, restVars, envVars, waitVars, allVars, spawnError>>

\* buildNerdctlStub(): fs.promises.copyFile() completes.
CopyDone(i, ok) ==
    /\ Idle
    /\ i \in 1..Len(tasks)
    /\ copyState[i] = "started"
    /\ copyState' = [copyState EXCEPT ![i] = IF ok THEN "done" ELSE "failed"]
    /\ IF ok
       THEN SettleTask(i, "fulfilled", NoError)
       ELSE SettleTask(i, "rejected", CopyError(i))
    /\ UNCHANGED <<limaVars, program, restVars, envVars, waitVars, allVars,
                   child, spawnState, spawnError>>

----------------------------------------------------------------------------
\* scripts/download/lima.mjs

Macos == <<"m", "a", "c", "o", "s">>
Aarch64 == <<"a", "a", "r", "c", "h", "6", "4">>
X86_64 == <<"x", "8", "6", "_", "6", "4">>

\* Values of process.env.M1 and of process.arch.
EnvM1Values == {"undefined", "", "0", "1"}
ArchValues == {"x64", "arm64"}

\* JavaScript's truthiness of process.env.M1.
Truthy(v) == v \notin {"undefined", ""}

\* The strings of lines 10 and 13-15, and the literals of lines 20-22 and 45.
limaTag == <<"v", "1", ".", "2", "3">>
alpineLimaTag == <<"v", "0", ".", "2", ".", "1", "6">>
alpineLimaEdition == <<"r", "d">>
alpineLimaVersion == <<"3", ".", "1", "5", ".", "4">>
Resources == <<"r", "e", "s", "o", "u", "r", "c", "e", "s">>

\* process.cwd(): some absolute directory, the same for every call.
Cwd == <<"/", "r", "d">>

\* path.join of segments that are not empty and hold no "/", "." or ".."
\* (after the first): the segments with a "/" between each two.
RECURSIVE PathJoin(_)
PathJoin(parts) ==
    IF Len(parts) = 1 THEN parts[1]
    ELSE parts[1] \o <<"/">> \o PathJoin(Tail(parts))

\* getLima, lines 20-22.
resourcesDir(p) == PathJoin(<<Cwd, Resources, p>>)

tarPath(p) ==
    PathJoin(<<resourcesDir(p),
               <<"l", "i", "m", "a", "-">> \o limaTag \o <<".">> \o p
                   \o <<".", "t", "g", "z">>>>)

\* The file name of line 45; the architecture is not part of it.
AlpineFile ==
    <<"a", "l", "p", "i", "n", "e", "-", "l", "i", "m", "a", "-">>
        \o alpineLimaTag \o <<"-">> \o alpineLimaEdition \o <<"-">>
        \o alpineLimaVersion \o <<".", "i", "s", "o">>

\* getAlpineLima, line 45.
destPathIgnoresPlatform(a, p) == PathJoin(<<Cwd, Resources, AlpineFile>>)

destPath(a, p) == PathJoin(<<Cwd, Resources, p, AlpineFile>>)

\* The path a call hands to download() as the destination.
DownloadTarget(op) ==
    IF op.fn = "getLima" THEN tarPath(op.platform)
    ELSE destPath(op.arch, op.platform)

GetLima(p) == [fn |-> "getLima", arch |-> <<>>, platform |-> p]
GetAlpineLima(a, p) == [fn |-> "getAlpineLima", arch |-> a, platform |-> p]

\* The test of line 61.
WantsM1(m1, a) == m1 # "0" /\ (Truthy(m1) \/ a = "arm64")

\* The platform name run() downloads for after line 60.
LimaPlatform(p) == IF p = Darwin THEN Macos ELSE p

\* The calls run() makes, in the order it makes them.
RunOps(p, m1, a) ==
    (IF p = Darwin /\ WantsM1(m1, a)
     THEN <<GetLima(Macos \o <<"-">> \o Aarch64),
            GetAlpineLima(Aarch64, Macos \o <<"-">> \o Aarch64)>>
     ELSE <<>>)
        \o <<GetLima(LimaPlatform(p)), GetAlpineLima(X86_64, LimaPlatform(p))>>

\* The array run() builds: each push adds one array holding two promises.
\* An element is the array of the indices (in ops) of its promises.
RunPromises(p, m1, a) ==
    [k \in 1..(Len(RunOps(p, m1, a)) \div 2) |->
        [isPromise |-> FALSE, items |-> <<2 * k - 1, 2 * k>>]]

\* Promise.all(elems): an element that is no promise counts as fulfilled.
PromiseAllOutcome(elems, st) ==
    IF \E k \in 1..Len(elems) :
           elems[k].isPromise /\ st[elems[k].items[1]] = "rejected"
    THEN "rejected"
    ELSE IF \A k \in 1..Len(elems) :
                elems[k].isPromise => st[elems[k].items[1]] = "fulfilled"
         THEN "fulfilled"
         ELSE "pending"

\* getLima: the error of the 'exit' handler, `code || signal`.
LimaExtractError(code, signal, i) ==
    [kind |-> "Lima extract failed with",
     code |-> IF code # CodeNull /\ code # 0 THEN code ELSE CodeNull,
     signal |-> IF code # CodeNull /\ code # 0 THEN SigNull ELSE signal,
     origin |-> i]

\* getLima: child.on('exit') of the tar process; the state the promise takes.
LimaExitHandler(code, signal) ==
    IF code = 0 THEN "fulfilled" ELSE "rejected"

StepError(what, i) ==
    [kind |-> what, code |-> CodeNull, signal |-> SigNull, origin |-> i]

\* No promise reaction of run() is waiting to run.
LimaIdle ==
    /\ program = "lima"
    /\ ~crashed
    /\ runState = "pending" => PromiseAllOutcome(promises, opPc) = "pending"

\* run(): lines 53-70, every call up to its first await.  process.env.M1 is
\* read on 'darwin' only, and process.arch only when M1 does not decide.
Run(m1, a) ==
    /\ program = "none"
    /\ program' = "lima"
    /\ envM1' = IF platform = Darwin THEN m1 ELSE "unread"
    /\ arch' = IF platform = Darwin /\ m1 # "0" /\ ~Truthy(m1)
               THEN a ELSE "unread"
    /\ ops' = RunOps(platform, m1, a)
    /\ promises' = RunPromises(platform, m1, a)
    /\ opPc' = [i \in 1..Len(RunOps(platform, m1, a)) |-> "getResource"]
    /\ opError' = [i \in 1..Len(RunOps(platform, m1, a)) |-> NoError]
    /\ opSteps' = [i \in 1..Len(RunOps(platform, m1, a)) |-> <<>>]
    /\ tar' = [i \in 1..Len(RunOps(platform, m1, a)) |-> NoChild]
    /\ runState' = "pending"
    /\ UNCHANGED <<crashed, restVars, envVars, waitVars, allVars, taskVars, microtasks,
                   childVars>>

\* run(): the promise of Promise.all(promises) settles.
RunAllSettle ==
    /\ program = "lima"
    /\ ~crashed
    /\ runState = "pending"
    /\ PromiseAllOutcome(promises, opPc) # "pending"
    /\ runState' = PromiseAllOutcome(promises, opPc)
    /\ UNCHANGED <<envM1, arch, ops, promises, opPc, opError, opSteps, tar, crashed,
                   program, restVars, envVars, waitVars, allVars, taskVars, microtasks,
                   childVars>>

\* `await p`: the function goes on when p is fulfilled and throws, which
\* rejects its promise, when p is rejected.
AwaitGoesOnAnyway(ok) == TRUE

AwaitGoesOn(ok) == ok

\* The awaited step `what` of call i has ended; history of the call.
StepEnded(i, what, ok) ==
    opSteps' = [opSteps EXCEPT ![i] = Append(@, [step |-> what, ok |-> ok])]

\* An awaited step of call i fails: the async function rejects.
OpReject(i, e) ==
    /\ opPc' = [opPc EXCEPT ![i] = "rejected"]
    /\ opError' = [opError EXCEPT ![i] = e]

\* getLima / getAlpineLima: the await of getResource(url.sha512sum) ends.
GetResourceDone(i, ok) ==
    /\ LimaIdle
    /\ i \in 1..Len(ops)
    /\ opPc[i] = "getResource"
    /\ StepEnded(i, "getResource", ok)
    /\ IF AwaitGoesOn(ok)
       THEN opPc' = [opPc EXCEPT ![i] = "download"] /\ UNCHANGED opError
       ELSE OpReject(i, StepError("getResource failed", i))
    /\ UNCHANGED <<envM1, arch, ops, promises, tar, runState, crashed,
                   program, restVars, envVars, waitVars, allVars, taskVars, microtasks,
                   childVars>>

\* getLima / getAlpineLima: the await of download(...) ends.
DownloadDone(i, ok) ==
    /\ LimaIdle
    /\ i \in 1..Len(ops)
    /\ opPc[i] = "download"
    /\ StepEnded(i, "download", ok)
    /\ IF AwaitGoesOn(ok)
       THEN /\ opPc' = [opPc EXCEPT ![i] =
                 IF ops[i].fn = "getLima" THEN "mkdir" ELSE "fulfilled"]
            /\ UNCHANGED opError
       ELSE OpReject(i, StepError("download failed", i))
    /\ UNCHANGED <<envM1, arch, ops, promises, tar, runState, crashed,
                   program, restVars, envVars, waitVars, allVars, taskVars, microtasks,
                   childVars>>

\* getLima: the await of mkdir ends; on success tar is spawned and the
\* 'exit' handler attached.
MkdirDone(i, ok) ==
    /\ LimaIdle
    /\ i \in 1..Len(ops)
    /\ opPc[i] = "mkdir"
    /\ StepEnded(i, "mkdir", ok)
    /\ IF AwaitGoesOn(ok)
       THEN /\ opPc' = [opPc EXCEPT ![i] = "extract"]
            /\ tar' = [tar EXCEPT ![i] = RunningChild]
            /\ UNCHANGED opError
       ELSE OpReject(i, StepError("mkdir failed", i)) /\ UNCHANGED tar
    /\ UNCHANGED <<envM1, arch, ops, promises, runState, crashed,
                   program, restVars, envVars, waitVars, allVars, taskVars, microtasks,
                   childVars>>

\* getLima: the 'exit' event of tar.
TarExit(i, o) ==
    /\ LimaIdle
    /\ i \in 1..Len(ops)
    /\ tar[i].state = "running"
    /\ tar' = [tar EXCEPT
         ![i] = [state |-> "exited", code |-> o.code, signal |-> o.signal,
                 error |-> NoError]]
    /\ opPc' = [opPc EXCEPT ![i] = LimaExitHandler(o.code, o.signal)]
    /\ opError' = [opError EXCEPT
         ![i] = IF LimaExitHandler(o.code, o.signal) = "rejected"
                THEN LimaExtractError(o.code, o.signal, i) ELSE NoError]
    /\ UNCHANGED <<envM1, arch, ops, promises, opSteps, runState, crashed,
                   program, restVars, envVars, waitVars, allVars, taskVars, microtasks,
                   childVars>>

\* getLima: the 'error' event of tar (it could not be started).  The child
\* has no 'error' listener: the emitter throws, nothing catches it.
TarError(i, errno) ==
    /\ LimaIdle
    /\ i \in 1..Len(ops)
    /\ tar[i].state = "running"
    /\ tar' = [tar EXCEPT ![i].state = "errored",
                          ![i].error = SystemError(errno, i)]
    /\ crashed' = TRUE
    /\ UNCHANGED <<envM1, arch, ops, promises, opPc, opError, opSteps, runState,
                   program, restVars, envVars, waitVars, allVars, taskVars, microtasks,
                   childVars>>

\* getLima: the 'close' event of tar; nothing listens to it.
TarClose(i) ==
    /\ LimaIdle
    /\ i \in 1..Len(ops)
    /\ tar[i].state = "exited"
    /\ tar' = [tar EXCEPT ![i].state = "closed"]
    /\ UNCHANGED <<envM1, arch, ops, promises, opPc, opError, opSteps, runState, crashed,
                   program, restVars, envVars, waitVars, allVars, taskVars, microtasks,
                   childVars>>

Next ==
    \/ \E n \in 0..MaxTasks : CallWait(n)
    \/ \E n \in 0..MaxTasks : CallWaitAgain(n)
    \/ ToggleSerial
    \/ BuildMain
    \/ \E b \in {"pending", "fulfilled", "rejected"} : SerialStep(b)
    \/ SerialReturn
    \/ SerialContinue
    \/ \E b \in {"pending", "fulfilled", "rejected"} : ParallelStep(b)
    \/ PromiseAll
    \/ AllReaction
    \/ ResumeWait
    \/ \E i \in 1..Len(tasks), st \in Settled : TaskSettle(i, st)
    \/ \E i \in 1..Len(tasks), res \in {"err", "hasErrors", "ok"} : WebpackCallback(i, res)
    \/ \E i \in 1..Len(tasks), o \in ExitOutcomes : ChildExit(i, o)
    \/ \E i \in 1..Len(tasks), errno \in SystemErrors : ChildError(i, errno)
    \/ \E i \in 1..Len(tasks) : ChildClose(i)
    \/ \E i \in 1..Len(tasks), ok \in BOOLEAN : CopyDone(i, ok)
    \/ \E m1 \in EnvM1Values, a \in ArchValues : Run(m1, a)
    \/ RunAllSettle
    \/ \E i \in 1..Len(ops), ok \in BOOLEAN : GetResourceDone(i, ok)
    \/ \E i \in 1..Len(ops), ok \in BOOLEAN : DownloadDone(i, ok)
    \/ \E i \in 1..Len(ops), ok \in BOOLEAN : MkdirDone(i, ok)
    \/ \E i \in 1..Len(ops), o \in ExitOutcomes : TarExit(i, o)
    \/ \E i \in 1..Len(ops), errno \in SystemErrors : TarError(i, errno)
    \/ \E i \in 1..Len(ops) : TarClose(i)

Spec == Init /\ [][Next]_vars

----------------------------------------------------------------------------
\* The Resource Fetcher on its own: download() calls for one descriptor,
\* one after the other.

InitFetch ==
    /\ program = "fetch"
    /\ serial = FALSE
    /\ platform = Linux
    /\ Quiet
    /\ fExpected \in {Checksum("sha512", c) : c \in Contents}
    /\ fFile \in {Absent} \cup Contents
    /\ fStartFile = fFile
    /\ fWritable \in BOOLEAN

fetchFrame ==
    <<program, envVars, waitVars, allVars, taskVars, microtasks, childVars,
      limaVars, flips, prevMode>>

\* download() is called with the descriptor.
FetchCall ==
    /\ program = "fetch"
    /\ fPc \in {"idle", "done"}
    /\ fCalls < MaxFetchCalls
    /\ fCalls' = fCalls + 1
    /\ fPc' = "check"
    /\ fStartFile' = fFile
    /\ fWritten' = Absent
    /\ fRequests' = 0
    /\ fPrevResult' = fResult
    /\ fResult' = "pending"
    /\ fError' = "none"
    /\ UNCHANGED <<fExpected, fFile, fWritable, fetchFrame>>

\* The existing file, if any, is checked against the expected checksum.
FetchCheck ==
    /\ program = "fetch"
    /\ fPc = "check"
    /\ IF AlreadySatisfied(fFile, "sha512", fExpected)
       THEN fPc' = "done" /\ fResult' = "fulfilled"
       ELSE fPc' = "mkdir" /\ UNCHANGED fResult
    /\ UNCHANGED <<fCalls, fExpected, fFile, fStartFile, fWritten, fRequests,
                   fWritable, fError, fPrevResult, fetchFrame>>

\* The destination directory is created if absent.
FetchMkdir(ok) ==
    /\ program = "fetch"
    /\ fPc = "mkdir"
    /\ IF ok
       THEN fPc' = "request" /\ UNCHANGED <<fResult, fError>>
       ELSE /\ fPc' = "done"
            /\ fResult' = "rejected"
            /\ fError' = "FilesystemFailure"
    /\ UNCHANGED <<fCalls, fExpected, fFile, fStartFile, fWritten, fRequests,
                   fWritable, fPrevResult, fetchFrame>>

\* The resource is requested and its body streamed to the destination; a
\* transfer that fails leaves the file as it was or truncated.
FetchRequest(ok, body, partial) ==
    /\ program = "fetch"
    /\ fPc = "request"
    /\ fRequests' = fRequests + 1
    /\ IF ok
       THEN /\ fPc' = "verify"
            /\ fFile' = body
            /\ fWritten' = body
            /\ UNCHANGED <<fResult, fError>>
       ELSE /\ fPc' = "done"
            /\ fFile' = IF partial THEN Truncated(body) ELSE fFile
            /\ fWritten' = IF partial THEN Truncated(body) ELSE Absent
            /\ fResult' = "rejected"
            /\ fError' = "NetworkFailure"
    /\ UNCHANGED <<fCalls, fExpected, fStartFile, fWritable, fPrevResult,
                   fetchFrame>>

\* The checksum of the written file is recomputed and compared.
FetchVerify ==
    /\ program = "fetch"
    /\ fPc = "verify"
    /\ IF Verified(fFile, "sha512", fExpected)
       THEN fPc' = "chmod" /\ UNCHANGED <<fResult, fError>>
       ELSE /\ fPc' = "done"
            /\ fResult' = "rejected"
            /\ fError' = "IntegrityFailure"
    /\ UNCHANGED <<fCalls, fExpected, fFile, fStartFile, fWritten, fRequests,
                   fWritable, fPrevResult, fetchFrame>>

\* The permission bits are adjusted for the required access (W_OK), and the
\* call succeeds.
FetchChmod ==
    /\ program = "fetch"
    /\ fPc = "chmod"
    /\ fPc' = "done"
    /\ fWritable' = TRUE
    /\ fResult' = "fulfilled"
    /\ UNCHANGED <<fCalls, fExpected, fFile, fStartFile, fWritten, fRequests,
                   fError, fPrevResult, fetchFrame>>

NextFetch ==
    \/ FetchCall
    \/ FetchCheck
    \/ \E ok \in BOOLEAN : FetchMkdir(ok)
    \/ \E ok \in BOOLEAN, body \in Contents, partial \in BOOLEAN :
          FetchRequest(ok, body, partial)
    \/ FetchVerify
    \/ FetchChmod

SpecFetch == InitFetch /\ [][NextFetch]_vars

----------------------------------------------------------------------------
\* Properties.

Started(i) == taskState[i] # "notStarted"

\* The child of task i ended by exiting or by a signal (it was started).
Ended(i) == child[i].code # CodeNull \/ child[i].signal # SigNull

\* C1: the promise of spawn() is classified by how the child ended: once the
\* child has closed, exit code 0 and SIGTERM leave it fulfilled, a non-zero
\* exit code and any other signal leave it rejected; between 'exit' and
\* 'close' the failures are already rejected and the successes still pending.
SpawnClassifiesExit ==
    \A i \in 1..Len(tasks) :
        /\ (child[i].state = "closed" /\ Ended(i)) =>
              /\ child[i].code = 0 => spawnState[i] = "fulfilled"
              /\ child[i].code \notin {0, CodeNull} => spawnState[i] = "rejected"
              /\ child[i].signal = "SIGTERM" => spawnState[i] = "fulfilled"
              /\ child[i].signal \notin {SigNull, "SIGTERM"} =>
                    spawnState[i] = "rejected"
        /\ child[i].state = "exited" =>
              /\ (child[i].code = 0 \/ child[i].signal = "SIGTERM") =>
                    spawnState[i] = "pending"
              /\ (child[i].code \notin {0, CodeNull}
                    \/ child[i].signal \notin {SigNull, "SIGTERM"}) =>
                    spawnState[i] = "rejected"

\* C1 witness: one child closed after SIGTERM with its promise fulfilled, and
\* another closed after a non-zero exit code with its promise rejected.
SpawnClassifiesExitWitness ==
    \E i, j \in 1..Len(tasks) :
        /\ child[i].state = "closed" /\ child[i].signal = "SIGTERM"
        /\ spawnState[i] = "fulfilled"
        /\ child[j].state = "closed" /\ child[j].code = 1
        /\ spawnState[j] = "rejected"

\* C2: in a serial wait(), a rejected task has only fulfilled tasks before
\* it and only tasks never started after it, and wait() is rejected with
\* that task's error (or the continuation that rejects it is the one queued
\* job).
SerialStopsAtFirstFailure ==
    waitMode = "serial" =>
        \A i \in 1..Len(tasks) :
            taskState[i] = "rejected" =>
                /\ \A j \in 1..(i - 1) : taskState[j] = "fulfilled"
                /\ \A j \in (i + 1)..Len(tasks) : ~Started(j)
                /\ taskError[i] # NoError
                /\ waitState \in {"pending", "rejected"}
                /\ waitState = "rejected" => waitError = taskError[i]
                /\ waitState = "pending" => microtasks = <<SerialJob(i)>>

\* C2 witness: wait(A, B, C) in serial mode, A fulfilled, B rejected, C never
\* started, wait() rejected with B's error.
SerialStopsAtFirstFailureWitness ==
    /\ waitMode = "serial"
    /\ Len(tasks) = 3
    /\ taskState = <<"fulfilled", "rejected", "notStarted">>
    /\ waitState = "rejected"
    /\ waitError = taskError[2]

\* What of task i is under way: its promise is pending, its child has not
\* exited, or its copy is running.
Running(i) ==
    \/ taskState[i] = "pending"
    \/ child[i].state = "running"
    \/ copyState[i] = "started"

\* C3: in a serial wait(), a task is started only when the task before it
\* has settled, and at most one task is running.
SerialOneAtATime ==
    waitMode = "serial" =>
        /\ \A i \in 2..Len(tasks) : Started(i) => taskState[i - 1] \in Settled
        /\ Cardinality({i \in 1..Len(tasks) : Running(i)}) <= 1

\* C3 witness: the second build task of a serial buildMain() is running its
\* child after the first one settled.
SerialOneAtATimeWitness ==
    /\ waitMode = "serial"
    /\ Len(tasks) = 4
    /\ taskState[1] = "fulfilled"
    /\ child[2].state = "running"
    /\ ~Started(3)

\* C4 as claimed: in a parallel wait(), once any task has settled every task
\* has been started.
ParallelAllStartedBeforeAnySettles ==
    waitMode = "parallel" =>
        ((\E i \in 1..Len(tasks) : taskState[i] \in Settled)
            => \A j \in 1..Len(tasks) : Started(j))

\* C4 as amended: in a parallel wait(), every task has been started when
\* wait() first gives up control, whatever became of the earlier tasks, and
\* while a task is still to be started no pending task settles (only a task
\* that comes back from its own call already settled is settled by then).
ParallelStartsAllWithoutWaiting ==
    /\ [](waitMode = "parallel" /\ waitPc # "map"
            => \A j \in 1..Len(tasks) : Started(j))
    /\ [][(waitMode = "parallel" /\ \E j \in 1..Len(tasks) : ~Started(j))
            => \A i \in 1..Len(tasks) :
                  taskState[i] = "pending" => taskState'[i] = "pending"]_vars

\* C4 witness: the first task failed, and the later tasks were started all
\* the same and are still pending.
ParallelStartsAllWitness ==
    /\ waitMode = "parallel"
    /\ Len(tasks) = 3
    /\ waitPc = "awaitAll"
    /\ taskState = <<"rejected", "pending", "pending">>

\* C5: in a parallel wait(), wait() is never fulfilled once a task rejected,
\* and when rejected it carries the error of the task that rejected first in
\* time; rejecting leaves every task and child as it is, and once rejected
\* the result of that call never changes.
ParallelFirstRejectionWins ==
    /\ [](waitMode = "parallel" =>
            /\ firstRejected # 0 => waitState # "fulfilled"
            /\ waitState = "rejected" =>
                  /\ firstRejected # 0
                  /\ waitError = taskError[firstRejected])
    /\ [][(waitMode = "parallel" /\ waitState = "rejected"
              /\ waitCalls' = waitCalls)
            => (waitState' = "rejected" /\ waitError' = waitError)]_vars
    /\ [][(waitMode = "parallel" /\ waitState # "rejected"
              /\ waitState' = "rejected")
            => (taskState' = taskState /\ child' = child
                  /\ copyState' = copyState)]_vars

\* C5 witness: the second task rejected first; wait() rejected with its
\* error; the first task went on, failed later, and the third succeeded.
ParallelFirstRejectionWinsWitness ==
    /\ waitMode = "parallel"
    /\ Len(tasks) = 3
    /\ firstRejected = 2
    /\ waitState = "rejected"
    /\ waitError = taskError[2]
    /\ taskState = <<"rejected", "rejected", "fulfilled">>
    /\ taskError[1] # taskError[2]

\* C6: in both modes, when the promise of wait() is fulfilled every task has
\* been started and is fulfilled, and nothing of any task is still running.
WaitFulfilledMeansAllDone ==
    waitState = "fulfilled" =>
        \A i \in 1..Len(tasks) : taskState[i] = "fulfilled" /\ ~Running(i)

\* C6 witness: a wait() over the four tasks of a Windows build is fulfilled.
WaitFulfilledMeansAllDoneWitness ==
    /\ waitState = "fulfilled"
    /\ Len(tasks) = 4
    /\ \A i \in 1..4 : taskState[i] = "fulfilled"

\* C7: the copy of buildNerdctlStub has started only if the child of its go
\* build has closed and spawn() took it for a success (exit code 0, or
\* SIGTERM, which spawn() counts as a success).
CopyOnlyAfterBuildSucceeded ==
    \A i \in 1..Len(tasks) :
        copyState[i] # "none" =>
            /\ tasks[i].fn = "buildNerdctlStub"
            /\ child[i].state = "closed"
            /\ spawnState[i] = "fulfilled"
            /\ child[i].code = 0 \/ child[i].signal = "SIGTERM"

\* C7 witness: a copy is running after its build exited with code 0 while the
\* other stub's build, which failed, has no copy.
CopyOnlyAfterBuildSucceededWitness ==
    \E i, j \in 1..Len(tasks) :
        /\ copyState[i] = "started" /\ child[i].code = 0
        /\ tasks[j].fn = "buildNerdctlStub"
        /\ child[j].state = "closed" /\ child[j].code = 1
        /\ copyState[j] = "none"

\* What spawn() makes of a child that ended with (code, signal), once closed.
SupervisorResult(code, signal, i) ==
    IF SpawnExitHandler(code, signal, i) # NoError
    THEN "rejected" ELSE "fulfilled"

\* C8: getLima's extraction has the result spawn() gives the same tar
\* process: the same state once tar has closed, and a rejection when tar
\* could not be started.
LimaExtractIsSupervisorResult ==
    \A i \in 1..Len(ops) :
        /\ tar[i].state = "closed" =>
              opPc[i] = SupervisorResult(tar[i].code, tar[i].signal, i)
        /\ tar[i].state = "errored" => opPc[i] = "rejected"

\* C9: the promise of run() is fulfilled only when every getLima and
\* getAlpineLima call it made is fulfilled (not before they settle, and not
\* when one of them failed).
RunPropagatesFailures ==
    runState = "fulfilled" =>
        \A i \in 1..Len(ops) : opPc[i] = "fulfilled"

\* C10: buildMain() makes one wait() call, over the bundling task alone on a
\* host that is not Windows and over the four tasks, in order, on Windows;
\* the list is fixed before any task starts and never changes.
BuildMainTaskList ==
    /\ [](program = "buildMain" =>
            /\ waitCalls = 1
            /\ tasks = IF platform = Win32
                       THEN <<BuildJavaScript, BuildWSLHelper,
                              BuildNerdctlStub("windows"),
                              BuildNerdctlStub("linux")>>
                       ELSE <<BuildJavaScript>>)
    /\ [][program = "buildMain" => tasks' = tasks /\ waitCalls' = waitCalls]_vars

\* C10 witness: on macOS ('darwin') buildMain() ran the bundling task alone
\* and its wait() is fulfilled.
BuildMainTaskListWitness ==
    /\ program = "buildMain"
    /\ platform = Darwin
    /\ Len(tasks) = 1
    /\ waitState = "fulfilled"

\* C11: when the child emitted 'error', the promise of spawn() is rejected
\* with the very error the system reported, and stays so after 'close'.
SpawnErrorUnchanged ==
    \A i \in 1..Len(tasks) :
        child[i].error # NoError =>
            /\ spawnState[i] = "rejected"
            /\ spawnError[i] = child[i].error

\* C11 witness: a child that could not be started has closed, and the
\* promise of spawn() is still rejected with the system's error.
SpawnErrorUnchangedWitness ==
    \E i \in 1..Len(tasks) :
        /\ child[i].state = "closed"
        /\ child[i].error = SystemError("EACCES", i)
        /\ spawnState[i] = "rejected"
        /\ spawnError[i] = SystemError("EACCES", i)

ModeDecidedOnceAtCall ==
    /\ [][waitCalls' # waitCalls
            => waitMode' = (IF serial THEN "serial" ELSE "parallel")]_vars
    /\ [][waitCalls' = waitCalls => waitMode' = waitMode]_vars
    /\ [](waitMode = "serial" => waitPc \in {"loop", "await", "done"})
    /\ [](waitMode = "parallel" => waitPc \in {"map", "awaitAll", "done"})
    /\ [][serial' # serial
            => UNCHANGED <<waitVars, allVars, taskVars, microtasks,
                           childVars>>]_vars

\* C12 witness: the first call ran serially, the toggle was flipped, the
\* second call took the parallel branch and started its three tasks, and a
\* flip back during the second call left it in the parallel branch.
ModeDecidedOnceAtCallWitness ==
    /\ waitCalls = 2
    /\ prevMode = "serial"
    /\ waitMode = "parallel"
    /\ flips = 2
    /\ serial
    /\ waitPc = "awaitAll"
    /\ taskState = <<"pending", "pending", "pending">>

\* The current download() call found a file with the expected checksum.
StartedSatisfied ==
    /\ fCalls >= 1
    /\ fStartFile # Absent
    /\ Checksum("sha512", fStartFile) = fExpected

\* C13: a download() call that finds a file with the expected checksum at the
\* destination issues no network request, leaves the file as it is, never
\* fails, and has succeeded when it is over.
FetchSkipsValidFile ==
    StartedSatisfied =>
        /\ fRequests = 0
        /\ fFile = fStartFile
        /\ fWritten = Absent
        /\ fResult \in {"pending", "fulfilled"}
        /\ fPc = "done" => fResult = "fulfilled"

\* C13 witness: a first call over an existing valid file is over, fulfilled,
\* with no request made.
FetchSkipsValidFileWitness ==
    /\ fCalls = 1
    /\ StartedSatisfied
    /\ fPc = "done"
    /\ fResult = "fulfilled"
    /\ fRequests = 0

\* C14: a download() call whose transfer completed succeeds exactly when the
\* checksum of the file as written is the expected one; on a mismatch it
\* fails with IntegrityFailure; either way the file holds what was written.
FetchSucceedsIffVerified ==
    (fPc = "done" /\ fRequests > 0 /\ fError # "NetworkFailure") =>
        /\ fResult = "fulfilled" <=> Checksum("sha512", fFile) = fExpected
        /\ Checksum("sha512", fFile) # fExpected =>
              fResult = "rejected" /\ fError = "IntegrityFailure"
        /\ fFile = fWritten
        /\ fFile # Absent

\* C14 witness: a download wrote a body with another checksum over an old
\* file; the call failed with IntegrityFailure and the body is in place.
FetchSucceedsIffVerifiedWitness ==
    /\ fPc = "done"
    /\ fRequests = 1
    /\ fError = "IntegrityFailure"
    /\ fStartFile # Absent
    /\ fFile # fStartFile
    /\ fFile = fWritten

\* C15: a download() call that follows a successful one for the same
\* descriptor issues no network request, leaves the file as it is, and
\* succeeds.
FetchIdempotent ==
    (fCalls >= 2 /\ fPrevResult = "fulfilled") =>
        /\ fRequests = 0
        /\ fFile = fStartFile
        /\ fResult \in {"pending", "fulfilled"}
        /\ fPc = "done" => fResult = "fulfilled"

\* C15 witness: the second call, made after a successful first one, is over,
\* fulfilled, with no request made.
FetchIdempotentWitness ==
    /\ fCalls = 2
    /\ fPrevResult = "fulfilled"
    /\ fWritable
    /\ fPc = "done"
    /\ fResult = "fulfilled"
    /\ fRequests = 0
    /\ fFile # Absent

\* The steps getLima awaits before it starts tar, in program order.
LimaSteps == <<"getResource", "download", "mkdir">>

\* C16: the awaited steps of a getLima call end in the order checksum
\* manifest, download, mkdir, each begun only after the one before succeeded,
\* and tar is started only when all three have succeeded.
LimaStepsInOrder ==
    \A i \in 1..Len(ops) :
        ops[i].fn = "getLima" =>
            /\ Len(opSteps[i]) <= Len(LimaSteps)
            /\ \A k \in 1..Len(opSteps[i]) :
                  /\ opSteps[i][k].step = LimaSteps[k]
                  /\ k < Len(opSteps[i]) => opSteps[i][k].ok
            /\ tar[i].state # "none" =>
                  /\ Len(opSteps[i]) = Len(LimaSteps)
                  /\ \A k \in 1..Len(LimaSteps) : opSteps[i][k].ok
            /\ opPc[i] \in {"download", "mkdir", "extract"} =>
                  /\ Len(opSteps[i]) >= 1
                  /\ opSteps[i][Len(opSteps[i])].ok

\* C16 witness: one getLima call has started tar, another was rejected by a
\* failed download and has no tar process.
LimaStepsInOrderWitness ==
    \E i, j \in 1..Len(ops) :
        /\ ops[i].fn = "getLima" /\ ops[j].fn = "getLima"
        /\ tar[i].state = "running"
        /\ Len(opSteps[j]) = 2
        /\ ~opSteps[j][2].ok
        /\ opPc[j] = "rejected"
        /\ tar[j].state = "none"

\* The calls in cs hand pairwise different destination paths to download().
TargetsDistinct(cs) ==
    \A i, j \in 1..Len(cs) :
        i # j => DownloadTarget(cs[i]) # DownloadTarget(cs[j])

\* C17: whenever run() makes its calls, no two of them hand the same
\* destination path to download(), whatever the host platform, M1 and
\* process.arch are; the calls in flight are always those calls.
RunTargetsDistinct ==
    /\ [][ops' # ops => TargetsDistinct(ops')]_vars
    /\ [][ops # <<>> => ops' = ops]_vars

\* C17 witness: on an Apple-silicon macOS host the four downloads are in
\* flight together, two of them for the same ISO file name.
RunTargetsDistinctWitness ==
    /\ Len(ops) = 4
    /\ \A i \in 1..Len(ops) : opPc[i] = "download"
    /\ \E i, j \in 1..Len(ops) :
          /\ i # j
          /\ ops[i].fn = "getAlpineLima" /\ ops[j].fn = "getAlpineLima"
          /\ ops[i].platform # ops[j].platform

\* C18: once tar has ended, by an 'exit' event or by the 'error' event of a
\* failure to start, the promise of its getLima call is settled.
LimaSettlesForEveryTarOutcome ==
    \A i \in 1..Len(ops) :
        tar[i].state \in {"exited", "errored", "closed"} =>
            opPc[i] \in Settled

====
